---- MODULE Spec2Model ----
(***************************************************************************)
(* Fix-it Felix: the orchestrator FixitFelix.run() (src/src/felix.ts),     *)
(* the fixer runner BaseFixer.run() (src/src/fixers/base.ts) and the       *)
(* configuration reader ConfigManager (src/unnamed/part_002).              *)
(*                                                                         *)
(* Strings are sequences of one-character strings, so that toLowerCase,    *)
(* includes, split and trim are computed the way JavaScript computes them. *)
(***************************************************************************)
EXTENDS Integers, Sequences, FiniteSets, TLC

\* ------------------------------------------------------------------------
\* String primitives (JavaScript String.prototype, ASCII range)
\* ------------------------------------------------------------------------
UpperAlpha ==
  <<"A","B","C","D","E","F","G","H","I","J","K","L","M",
    "N","O","P","Q","R","S","T","U","V","W","X","Y","Z">>

LowerAlpha ==
  <<"a","b","c","d","e","f","g","h","i","j","k","l","m",
    "n","o","p","q","r","s","t","u","v","w","x","y","z">>

isUpperChar(c) == \E i \in 1..26 : UpperAlpha[i] = c

isLowerChar(c) == \E i \in 1..26 : LowerAlpha[i] = c

toLowerChar(c) ==
  IF isUpperChar(c) THEN LowerAlpha[CHOOSE i \in 1..26 : UpperAlpha[i] = c] ELSE c

toUpperChar(c) ==
  IF isLowerChar(c) THEN UpperAlpha[CHOOSE i \in 1..26 : LowerAlpha[i] = c] ELSE c

\* String.prototype.toLowerCase
toLowerCase(s) == [i \in 1..Len(s) |-> toLowerChar(s[i])]

\* String.prototype.includes
includes(s, t) ==
  \E i \in 0..(Len(s) - Len(t)) : SubSeq(s, i + 1, i + Len(t)) = t

isSpaceChar(c) == c \in {" ", "\t", "\n"}

RECURSIVE trimStart(_)
trimStart(s) ==
  IF s # <<>> /\ isSpaceChar(Head(s)) THEN trimStart(Tail(s)) ELSE s

RECURSIVE trimEnd(_)
trimEnd(s) ==
  IF s # <<>> /\ isSpaceChar(s[Len(s)]) THEN trimEnd(SubSeq(s, 1, Len(s) - 1)) ELSE s

\* String.prototype.trim
trim(s) == trimEnd(trimStart(s))

\* String.prototype.split(','): the pieces between the commas, empty ones kept
RECURSIVE splitComma(_, _)
splitComma(s, cur) ==
  IF s = <<>> THEN <<cur>>
  ELSE IF Head(s) = "," THEN <<cur>> \o splitComma(Tail(s), <<>>)
  ELSE splitComma(Tail(s), Append(cur, Head(s)))

RECURSIVE dropEmpty(_)
dropEmpty(xs) ==
  IF xs = <<>> THEN <<>>
  ELSE IF Len(Head(xs)) > 0 THEN <<Head(xs)>> \o dropEmpty(Tail(xs))
  ELSE dropEmpty(Tail(xs))

\* input.split(',').map(x => x.trim()).filter(x => x.length > 0)
splitTrimFilter(s) ==
  LET parts == splitComma(s, <<>>)
  IN dropEmpty([i \in 1..Len(parts) |-> trim(parts[i])])

\* ------------------------------------------------------------------------
\* String literals of the program
\* ------------------------------------------------------------------------
S_fix_it_felix == <<"f","i","x","-","i","t","-","f","e","l","i","x">>

S_felix == <<"f","e","l","i","x">>

S_github_actions_bot ==
  <<"g","i","t","h","u","b","-","a","c","t","i","o","n","s","[","b","o","t","]">>

S_bot == <<"[","b","o","t","]">>

\* 'Fix-it Felix', the signature looked for in the last commit's subject
S_Signature == <<"F","i","x","-","i","t"," ","F","e","l","i","x">>

\* 'Fix-it Felix[bot]', the user.name configureGitUser sets
S_FelixUser ==
  <<"F","i","x","-","i","t"," ","F","e","l","i","x","[","b","o","t","]">>

S_eslint == <<"e","s","l","i","n","t">>

S_prettier == <<"p","r","e","t","t","i","e","r">>

S_markdownlint == <<"m","a","r","k","d","o","w","n","l","i","n","t">>

S_oxlint == <<"o","x","l","i","n","t">>

S_unnamed_fixer == <<"u","n","n","a","m","e","d","-","f","i","x","e","r">>

S_dot == <<".">>

\* ------------------------------------------------------------------------
\* ConfigManager
\* The configuration document is a record
\*   [fixers |-> sequence of FixerItem, paths |-> sequence of strings,
\*    legacy |-> sequence of [key, block] (the top-level per-fixer blocks)]
\* A FixerItem is [isObject, str, obj]: a bare name (str) or an inline object.
\* A FixerConfig is [hasName, name, command, hasExtensions, extensions, paths];
\* an absent array is the empty sequence, except extensions, whose absence
\* differs from [] (`extensions || default` keeps an empty array).
\* ------------------------------------------------------------------------
EmptyFixerConfig ==
  [hasName |-> FALSE, name |-> <<>>, command |-> <<>>,
   hasExtensions |-> FALSE, extensions |-> <<>>, paths |-> <<>>]

EmptyConfig == [fixers |-> <<>>, paths |-> <<>>, legacy |-> <<>>]

\* getFixerName(fixer): the string itself, or fixer.name || 'unnamed-fixer'
getFixerName(item) ==
  IF ~item.isObject THEN item.str
  ELSE IF item.obj.hasName /\ item.obj.name # <<>> THEN item.obj.name
  ELSE S_unnamed_fixer

\* variant: the action input comes first
getFixersInputFirst(inp, config) ==
  IF splitTrimFilter(inp.fixers) # <<>> THEN splitTrimFilter(inp.fixers)
  ELSE [i \in 1..Len(config.fixers) |-> getFixerName(config.fixers[i])]

\* getFixers(): the config file's fixers when non-empty, else the input
getFixers(inp, config) ==
  IF Len(config.fixers) > 0
  THEN [i \in 1..Len(config.fixers) |-> getFixerName(config.fixers[i])]
  ELSE splitTrimFilter(inp.fixers)

\* variant: the config file comes first
getPathsConfigFirst(inp, config) ==
  IF Len(config.paths) > 0 THEN config.paths
  ELSE IF inp.paths # <<>> THEN splitTrimFilter(inp.paths)
  ELSE <<S_dot>>

\* getPaths(): action input > config file > ['.']
getPaths(inp, config) ==
  IF inp.paths # <<>> THEN splitTrimFilter(inp.paths)
  ELSE IF Len(config.paths) > 0 THEN config.paths
  ELSE <<S_dot>>

\* variant: the legacy block comes first
getFixerConfigLegacyFirst(config, fixerName) ==
  LET inlineIdx == {i \in 1..Len(config.fixers) :
                      config.fixers[i].isObject
                      /\ getFixerName(config.fixers[i]) = fixerName}
      legacyIdx == {i \in 1..Len(config.legacy) : config.legacy[i].key = fixerName}
  IN IF legacyIdx # {}
     THEN config.legacy[CHOOSE i \in legacyIdx : TRUE].block
     ELSE IF inlineIdx # {}
     THEN config.fixers[CHOOSE i \in inlineIdx : \A j \in inlineIdx : i <= j].obj
     ELSE EmptyFixerConfig

\* getFixerConfig(name): first inline object of that name, else the legacy
\* block keyed by the name, else {}
getFixerConfig(config, fixerName) ==
  LET inlineIdx == {i \in 1..Len(config.fixers) :
                      config.fixers[i].isObject
                      /\ getFixerName(config.fixers[i]) = fixerName}
      legacyIdx == {i \in 1..Len(config.legacy) : config.legacy[i].key = fixerName}
  IN IF inlineIdx # {}
     THEN config.fixers[CHOOSE i \in inlineIdx : \A j \in inlineIdx : i <= j].obj
     ELSE IF legacyIdx # {}
     THEN config.legacy[CHOOSE i \in legacyIdx : TRUE].block
     ELSE EmptyFixerConfig

\* getFixerPaths(name): the fixer's own paths when non-empty, else getPaths()
getFixerPaths(inp, config, fixerName) ==
  LET fixerConfig == getFixerConfig(config, fixerName)
  IN IF Len(fixerConfig.paths) > 0 THEN fixerConfig.paths ELSE getPaths(inp, config)

\* getAllowedBots(): inputs.allowedBots.split(',').map(trim).filter(nonempty)
getAllowedBots(allowedBotsInput) == splitTrimFilter(allowedBotsInput)

\* ------------------------------------------------------------------------
\* Paths: path.extname and minimatch
\* ------------------------------------------------------------------------
\* s.split('/'): the pieces between the slashes, empty ones kept
RECURSIVE splitSlash(_, _)
splitSlash(s, cur) ==
  IF s = <<>> THEN <<cur>>
  ELSE IF Head(s) = "/" THEN <<cur>> \o splitSlash(Tail(s), <<>>)
  ELSE splitSlash(Tail(s), Append(cur, Head(s)))

RECURSIVE stripTrailingSlashes(_)
stripTrailingSlashes(s) ==
  IF Len(s) > 1 /\ s[Len(s)] = "/"
  THEN stripTrailingSlashes(SubSeq(s, 1, Len(s) - 1)) ELSE s

\* path.basename
basename(p) ==
  LET segs == splitSlash(stripTrailingSlashes(p), <<>>) IN segs[Len(segs)]

\* path.extname: from the last '.' of the basename to its end; '' when the
\* basename has no '.', starts with its only '.', or is '..'
extname(p) ==
  LET b == basename(p)
      dots == {i \in 1..Len(b) : b[i] = "."}
      last == CHOOSE i \in dots : \A j \in dots : j <= i
  IN IF dots = {} THEN <<>>
     ELSE IF last = 1 THEN <<>>
     ELSE IF b = <<".", ".">> THEN <<>>
     ELSE SubSeq(b, last, Len(b))

hasMagic(seg) == \E i \in 1..Len(seg) : seg[i] \in {"*", "?"}

\* one path segment against one pattern segment: '*' any run of characters,
\* '?' any one character
RECURSIVE matchChars(_, _)
matchChars(f, p) ==
  IF p = <<>> THEN f = <<>>
  ELSE IF Head(p) = "*"
    THEN matchChars(f, Tail(p)) \/ (f # <<>> /\ matchChars(Tail(f), p))
  ELSE IF Head(p) = "?" THEN f # <<>> /\ matchChars(Tail(f), Tail(p))
  ELSE f # <<>> /\ Head(f) = Head(p) /\ matchChars(Tail(f), Tail(p))

isDotSegment(f) == f # <<>> /\ Head(f) = "."

\* a literal segment compares by equality; a segment with magic does not
\* match a name starting with '.' unless the pattern starts with '.'
matchSegment(f, p) ==
  IF ~hasMagic(p) THEN f = p
  ELSE /\ f # <<>>
       /\ (isDotSegment(f) => isDotSegment(p))
       /\ matchChars(f, p)

\* minimatch's matchOne over the segment lists ('**' is the globstar)
RECURSIVE matchOne(_, _)
matchOne(file, pattern) ==
  IF file = <<>> THEN pattern = <<>>
  ELSE IF pattern = <<>> THEN Len(file) = 1 /\ file[1] = <<>>
  ELSE IF Head(pattern) = <<"*", "*">>
    THEN IF Len(pattern) = 1
         THEN \A i \in 1..Len(file) : ~isDotSegment(file[i])
         ELSE \E fr \in 0..(Len(file) - 1) :
                /\ \A i \in 1..fr : ~isDotSegment(file[i])
                /\ matchOne(SubSeq(file, fr + 1, Len(file)), Tail(pattern))
  ELSE /\ matchSegment(Head(file), Head(pattern))
       /\ matchOne(Tail(file), Tail(pattern))

\* minimatch(file, pattern) with the default options
minimatch(file, pattern) ==
  IF pattern = <<>> THEN file = <<>>
  ELSE matchOne(splitSlash(file, <<>>), splitSlash(pattern, <<>>))

\* ------------------------------------------------------------------------
\* Fixer registry (src/src/fixers/index.ts) and FileRouter
\* ------------------------------------------------------------------------
AVAILABLE_FIXERS == <<S_eslint, S_prettier, S_markdownlint, S_oxlint>>

isAvailableFixerName(name) == \E i \in 1..Len(AVAILABLE_FIXERS) : AVAILABLE_FIXERS[i] = name

\* variant: every configuration counts as carrying a command
hasCommandAlways(fixerConfig) == TRUE

\* felix.ts 62-66, index.ts 26: command is a non-empty array
hasCommand(fixerConfig) == Len(fixerConfig.command) > 0

\* createFixer: the kind of fixer built for a name, "null" when none
createFixer(name, fixerConfig) ==
  LET lower == toLowerCase(name)
  IN IF lower = S_eslint THEN "eslint"
     ELSE IF lower = S_prettier THEN "prettier"
     ELSE IF lower = S_markdownlint THEN "markdownlint"
     ELSE IF lower = S_oxlint THEN "oxlint"
     ELSE IF hasCommand(fixerConfig) THEN "custom"
     ELSE "null"

EslintExtensions ==
  <<<<".","j","s">>,
    <<".","j","s","x">>,
    <<".","t","s">>,
    <<".","t","s","x">>,
    <<".","v","u","e">>>>

OxlintExtensions ==
  <<<<".","j","s">>,
    <<".","m","j","s">>,
    <<".","c","j","s">>,
    <<".","j","s","x">>,
    <<".","t","s">>,
    <<".","m","t","s">>,
    <<".","c","t","s">>,
    <<".","t","s","x">>,
    <<".","v","u","e">>,
    <<".","a","s","t","r","o">>,
    <<".","s","v","e","l","t","e">>>>

PrettierExtensions ==
  <<<<".","j","s">>,
    <<".","j","s","x">>,
    <<".","t","s">>,
    <<".","t","s","x">>,
    <<".","v","u","e">>,
    <<".","j","s","o","n">>,
    <<".","m","d">>,
    <<".","y","m","l">>,
    <<".","y","a","m","l">>,
    <<".","c","s","s">>,
    <<".","s","c","s","s">>,
    <<".","l","e","s","s">>,
    <<".","h","t","m","l">>>>

MarkdownlintExtensions ==
  <<<<".","m","d">>,
    <<".","m","a","r","k","d","o","w","n">>>>

seqContains(xs, x) == \E i \in 1..Len(xs) : xs[i] = x

\* variant: the configured paths are not looked at
fileIsRelevantAnyPath(file, extensions, configuredPaths) ==
  seqContains(extensions, toLowerCase(extname(file)))

\* the extension and path test filterFilesByFixer applies to one file
fileIsRelevant(file, extensions, configuredPaths) ==
  LET ext == toLowerCase(extname(file))
  IN IF ~seqContains(extensions, ext) THEN FALSE
     ELSE IF Len(configuredPaths) = 1 /\ configuredPaths[1] = S_dot THEN TRUE
     ELSE \E k \in 1..Len(configuredPaths) : minimatch(file, configuredPaths[k])

filterFilesByFixer(files, fixerName, fixerConfig, configuredPaths) ==
  LET override(default) ==
        IF fixerConfig.hasExtensions THEN fixerConfig.extensions ELSE default
      filtered(extensions) ==
        LET keep(f) == fileIsRelevant(f, extensions, configuredPaths)
        IN SelectSeq(files, keep)
  IN IF fixerName = S_eslint THEN filtered(override(EslintExtensions))
     ELSE IF fixerName = S_oxlint THEN filtered(override(OxlintExtensions))
     ELSE IF fixerName = S_prettier THEN filtered(override(PrettierExtensions))
     ELSE IF fixerName = S_markdownlint THEN filtered(override(MarkdownlintExtensions))
     ELSE files

\* ------------------------------------------------------------------------
\* BaseFixer.run (src/src/fixers/base.ts)
\* ------------------------------------------------------------------------
\* didRun: 127 = command not found, 126 = not executable
didRun(exitCode) == exitCode # 127 /\ exitCode # 126

\* variant: only a zero exit code counts as success
isSuccessExitOnly(exitCode, madeChanges) == exitCode = 0

\* result.success = exitCode === 0 || (didRun && madeChanges)
isSuccess(exitCode, madeChanges) ==
  exitCode = 0 \/ (didRun(exitCode) /\ madeChanges)

NoError == [kind |-> "none", code |-> 0]

\* variant: the answer of isAvailable() is not looked at
fixerRunUnprobed(name, available, threw, exitCode, diff) ==
  IF threw
    THEN [name |-> name, success |-> FALSE, changedFiles |-> <<>>,
          error |-> [kind |-> "exception", code |-> 0]]
  ELSE [name |-> name, success |-> isSuccess(exitCode, Len(diff) > 0),
        changedFiles |-> diff, error |-> NoError]

\* the FixerResult of run(): `probe` is isAvailable()'s outcome, `threw`
\* says that exec.exec of the command rejected, `diff` is what
\* getChangedFiles() returned after the command
fixerRun(name, available, threw, exitCode, diff) ==
  IF ~available
    THEN [name |-> name, success |-> FALSE, changedFiles |-> <<>>,
          error |-> [kind |-> "unavailable", code |-> 0]]
  ELSE IF threw
    THEN [name |-> name, success |-> FALSE, changedFiles |-> <<>>,
          error |-> [kind |-> "exception", code |-> 0]]
  ELSE LET success == isSuccess(exitCode, Len(diff) > 0)
       IN [name |-> name, success |-> success, changedFiles |-> diff,
           error |-> IF exitCode # 0 /\ ~success
                     THEN [kind |-> "exit", code |-> exitCode]
                     ELSE NoError]

\* ------------------------------------------------------------------------
\* The repository the runs work on
\* ------------------------------------------------------------------------
F_app == <<"s","r","c","/","a","p","p",".","j","s">>

F_readme == <<"R","E","A","D","M","E",".","m","d">>

F_old == <<"d","o","c","s","/","o","l","d",".","m","d">>

\* tracked files present in the checkout, in the order git prints them
TrackedFiles == <<F_readme, F_app>>

D_src == <<"s","r","c">>

D_lib == <<"l","i","b">>

\* the directories of the checkout; there is no directory lib
Directories == {<<".">>, D_src}

\* fs.existsSync: F_old is a file the pull request deleted
existsSync(file) == seqContains(TrackedFiles, file) \/ file \in Directories

\* variant: only the first line of git's output is kept
gitDiffNameOnlyFirstLine(modified) ==
  LET isModified(f) == f \in modified
      lines == SelectSeq(TrackedFiles, isModified)
  IN IF lines = <<>> THEN <<>> ELSE <<lines[1]>>

\* git diff --name-only: the modified files, one per line, in path order,
\* then .trim().split('\n').filter(nonempty)
gitDiffNameOnly(modified) ==
  LET isModified(f) == f \in modified IN SelectSeq(TrackedFiles, isModified)

\* getChangedFiles(): the diff, or [] when git fails
getChangedFiles(diffOk, modified) ==
  IF diffOk THEN gitDiffNameOnly(modified) ELSE <<>>

\* variant: repeated paths are kept
dedupeKeepAll(xs) == xs

\* [...new Set(xs)]: first occurrences, in order
RECURSIVE dedupe(_)
dedupe(xs) ==
  IF xs = <<>> THEN <<>>
  ELSE LET rest == dedupe(SubSeq(xs, 1, Len(xs) - 1))
           x == xs[Len(xs)]
       IN IF seqContains(rest, x) THEN rest ELSE Append(rest, x)

\* variant: the failure flag is left as the loop set it
aggregateFailuresKept(fixesApplied, hasFailures) == hasFailures

\* felix.ts 114-118: any applied fix clears the failure flag
aggregateFailures(fixesApplied, hasFailures) ==
  IF fixesApplied THEN FALSE ELSE hasFailures

\* ------------------------------------------------------------------------
\* FixitFelix.isInfiniteLoopRisk
\* A git log read is a record [ok |-> BOOLEAN, out |-> string]: exec.exec
\* rejects when git exits non-zero, and the catch block returns false.
\* ------------------------------------------------------------------------
felixIndicators == <<S_fix_it_felix, S_felix, S_github_actions_bot>>

\* variant: the allow-list is matched without lowercasing either side
isAllowedBotCased(lastAuthor, allowedBots) ==
  \E k \in 1..Len(allowedBots) : includes(lastAuthor, allowedBots[k])

\* allowedBots.some(b => lastAuthor.toLowerCase().includes(b.toLowerCase()))
isAllowedBot(lastAuthor, allowedBots) ==
  \E k \in 1..Len(allowedBots) :
    includes(toLowerCase(lastAuthor), toLowerCase(allowedBots[k]))

\* variant: the author is matched without lowercasing it
isLastCommitByFelixCased(lastAuthor) ==
  \E k \in 1..Len(felixIndicators) : includes(lastAuthor, felixIndicators[k])

\* felixIndicators.some(ind => lastAuthor.toLowerCase().includes(ind))
isLastCommitByFelix(lastAuthor) ==
  \E k \in 1..Len(felixIndicators) :
    includes(toLowerCase(lastAuthor), felixIndicators[k])

\* lastAuthor.toLowerCase().includes('[bot]')
isGenericBot(lastAuthor) == includes(toLowerCase(lastAuthor), S_bot)

\* lastCommitMessage.includes('Fix-it Felix')
hasFelixSignature(lastCommitMessage) == includes(lastCommitMessage, S_Signature)

\* TRUE when the guard reaches the second git log (the subject read)
guardReadsSubject(authorRead, allowedBotsInput) ==
  /\ authorRead.ok
  /\ ~isAllowedBot(authorRead.out, getAllowedBots(allowedBotsInput))
  /\ ~isLastCommitByFelix(authorRead.out)
  /\ ~isGenericBot(authorRead.out)

\* variant: only the commit subject is looked at
isInfiniteLoopRiskSubjectOnly(authorRead, subjectRead, allowedBotsInput) ==
  authorRead.ok /\ subjectRead.ok /\ hasFelixSignature(subjectRead.out)

\* variant: the bot checks come before the allow-list
isInfiniteLoopRiskBotFirst(authorRead, subjectRead, allowedBotsInput) ==
  IF ~authorRead.ok THEN FALSE
  ELSE
    LET lastAuthor == authorRead.out
    IN IF isLastCommitByFelix(lastAuthor) \/ isGenericBot(lastAuthor) THEN TRUE
       ELSE IF isAllowedBot(lastAuthor, getAllowedBots(allowedBotsInput)) THEN FALSE
       ELSE IF ~subjectRead.ok THEN FALSE
       ELSE hasFelixSignature(subjectRead.out)

\* variant: a failed git log read counts as a risk
isInfiniteLoopRiskFailClosed(authorRead, subjectRead, allowedBotsInput) ==
  IF ~authorRead.ok THEN TRUE
  ELSE
    LET lastAuthor == authorRead.out
        allowed == isAllowedBot(lastAuthor, getAllowedBots(allowedBotsInput))
    IN IF allowed THEN FALSE
       ELSE IF isLastCommitByFelix(lastAuthor) \/ isGenericBot(lastAuthor) THEN TRUE
       ELSE IF ~subjectRead.ok THEN TRUE
       ELSE hasFelixSignature(subjectRead.out)

isInfiniteLoopRisk(authorRead, subjectRead, allowedBotsInput) ==
  IF ~authorRead.ok THEN FALSE
  ELSE
    LET lastAuthor == authorRead.out
        allowed == isAllowedBot(lastAuthor, getAllowedBots(allowedBotsInput))
        isUnknownBot == isGenericBot(lastAuthor) /\ ~allowed
    IN IF allowed THEN FALSE
       ELSE IF isLastCommitByFelix(lastAuthor) \/ isUnknownBot THEN TRUE
       ELSE IF ~subjectRead.ok THEN FALSE
       ELSE hasFelixSignature(subjectRead.out)

\* ------------------------------------------------------------------------
\* State
\* ------------------------------------------------------------------------
VARIABLES
  env,         \* the environment: which steps may fail, whether the job runs the
               \* action twice, the runner's git identity
  inputs,      \* FelixInputs: fixers, paths, allowedBots, commitMessage, dryRun, debug,
               \* skipDraftPrs
  config,      \* the parsed configuration document
  hasToken,    \* this.token is non-empty
  ctx,         \* the event: isPullRequest, hasSkipLabel, isFork, draft
  lastCommit,  \* author name and subject of HEAD
  gitUser,     \* user.name of the checkout's git config, <<>> when unset
  modified,    \* the tracked files with uncommitted modifications
  pc,          \* where run() is
  runNo,       \* which run of the action this is
  guard,       \* what the loop guard read and answered in this run
  prFiles,     \* changedFiles of run(): what getChangedFilesInPR() returned
  strategy,    \* index of the git diff range getChangedFilesInPR() is at
  fixerIdx,    \* index into getFixers() of the loop of run()
  result,      \* the FelixResult being built
  execLog,     \* per entry of result.fixerResults: what its run() met
  ops,         \* the external commands this run has executed, in order
  discLog,     \* per discovery attempt of getChangedFilesInPR(): what it listed
  flips        \* letter-case edits made to the guard's inputs: how many, whether
               \* the subject was edited, the guard's decision before them

vars ==
  <<env, inputs, config, hasToken, ctx, lastCommit, gitUser, modified, pc, runNo,
    guard, prFiles, strategy, fixerIdx, result, execLog, ops, discLog, flips>>

\* ------------------------------------------------------------------------
\* Bounds and input sets
\* ------------------------------------------------------------------------
MaxRuns == 2

MaxFlips == 1

ExitCodes == {0, 1, 126, 127}

A_Regular == <<"R","e","g","u","l","a","r"," ","U","s","e","r">>

A_Dependabot == <<"d","e","p","e","n","d","a","b","o","t","[","b","o","t","]">>

A_Actions == <<"G","I","T","H","U","B","-","A","C","T","I","O","N","S","[","b","o","t","]">>

A_FelixAction == <<"F","i","x","-","I","t","-","F","e","l","i","x">>

M_Regular == <<"R","e","g","u","l","a","r"," ","c","o","m","m","i","t">>

M_Default == <<"F","i","x","-","i","t"," ","F","e","l","i","x",":"," ","A","u","t","o","-","f","i","x","e","d"," ","i","s","s","u","e","s">>

M_Custom == <<"c","h","o","r","e",":"," ","a","u","t","o","f","i","x">>

B_None == <<>>

B_Dependabot == <<"d","e","p","e","n","d","a","b","o","t">>

B_Two == <<"D","E","P","E","N","D","A","B","O","T",","," ","R","e","n","o","v","a","t","e">>

B_Felix == <<"r","e","n","o","v","a","t","e",",","f","e","l","i","x">>

I_EslintPrettier == <<"e","s","l","i","n","t",","," ","p","r","e","t","t","i","e","r">>

I_PrettierUnknown == <<"s","t","y","l","e","l","i","n","t",",","p","r","e","t","t","i","e","r">>

P_SrcLib == <<"s","r","c",","," ",",","l","i","b">>

P_Src == <<"s","r","c">>

P_SrcGlob == <<"s","r","c","/","*","*">>

I_UpperCase == <<"E","S","L","i","n","t",",","P","R","E","T","T","I","E","R">>

E_md == <<".","m","d">>

E_js == <<".","j","s">>

\* { "paths": ["docs"] }
ConfigPaths == [fixers |-> <<>>, paths |-> <<<<"d","o","c","s">>>>, legacy |-> <<>>]

\* { "prettier": { "extensions": [".md"] } }
ConfigLegacy ==
  [fixers |-> <<>>, paths |-> <<>>,
   legacy |-> <<[key |-> S_prettier,
                 block |-> [EmptyFixerConfig EXCEPT !.hasExtensions = TRUE,
                                                    !.extensions = <<E_md>>]]>>]

\* { "fixers": ["eslint", { "name": "prettier", "extensions": [".md"] }],
\*   "prettier": { "extensions": [".js"] } }
ConfigBoth ==
  [fixers |-> <<[isObject |-> FALSE, str |-> S_eslint, obj |-> EmptyFixerConfig],
                [isObject |-> TRUE, str |-> <<>>,
                 obj |-> [EmptyFixerConfig EXCEPT !.hasName = TRUE, !.name = S_prettier,
                                                   !.hasExtensions = TRUE,
                                                   !.extensions = <<E_md>>]]>>,
   paths |-> <<>>,
   legacy |-> <<[key |-> S_prettier,
                 block |-> [EmptyFixerConfig EXCEPT !.hasExtensions = TRUE,
                                                    !.extensions = <<E_js>>]]>>]

S_lint == <<"l","i","n","t">>

C_npm_run_lint == <<<<"n","p","m">>, <<"r","u","n">>, <<"l","i","n","t">>>>

\* { "fixers": ["markdownlint", { "name": "lint", "command": [...] }] }
ConfigInline ==
  [fixers |-> <<[isObject |-> FALSE, str |-> S_markdownlint, obj |-> EmptyFixerConfig],
                [isObject |-> TRUE, str |-> <<>>,
                 obj |-> [EmptyFixerConfig EXCEPT !.hasName = TRUE, !.name = S_lint,
                                                   !.command = C_npm_run_lint]]>>,
   paths |-> <<>>, legacy |-> <<>>]

Listings == {<<>>, <<F_app>>, <<F_old>>, <<F_readme, F_old, F_app>>}

\* what pulls.listFiles answers, page by page
ApiListings == {<<>>, <<<<F_app>>>>, <<<<F_old>>>>, <<<<F_readme, F_old>>, <<F_app>>>>}

EmptyResult ==
  [fixesApplied |-> FALSE, changedFiles |-> <<>>, fixerResults |-> <<>>,
   hasFailures |-> FALSE]

NoCommit == [author |-> <<>>, subject |-> <<>>]

\* guard.head is the commit `git log -1` looked at
NoGuard ==
  [done |-> FALSE, authorOk |-> FALSE, subjectRead |-> "none", risk |-> FALSE,
   head |-> NoCommit]

Contexts ==
  [isPullRequest : BOOLEAN, hasSkipLabel : BOOLEAN, isFork : BOOLEAN, draft : BOOLEAN]

Op(name, n, ok) == [op |-> name, n |-> n, ok |-> ok]

hasOp(name) == \E i \in 1..Len(ops) : ops[i].op = name

pushed == \E i \in 1..Len(ops) : ops[i].op = "git push" /\ ops[i].ok

fixers == getFixers(inputs, config)

\* what the guard answers for the current HEAD when both reads succeed
guardDecision ==
  isInfiniteLoopRisk([ok |-> TRUE, out |-> lastCommit.author],
                     [ok |-> TRUE, out |-> lastCommit.subject], inputs.allowedBots)

\* the state run() starts from
RunStart ==
  /\ pc = "start" /\ guard = NoGuard /\ prFiles = <<>> /\ strategy = 0
  /\ fixerIdx = 0 /\ result = EmptyResult /\ execLog = <<>> /\ ops = <<>>
  /\ discLog = <<>>

\* One scenario family: the steps named in `faults` may fail (the others
\* succeed), the runner's checkout has `ambient` as user.name
Scenario(faults, ambients, inputSet, configSet, tokenSet, ctxSet, commitSet) ==
  /\ env \in [faults : {faults}, ambientUser : ambients]
  /\ inputs \in inputSet
  /\ config \in configSet
  /\ hasToken \in tokenSet
  /\ ctx \in ctxSet
  /\ lastCommit \in commitSet
  /\ gitUser = env.ambientUser
  /\ modified = {}
  /\ runNo = 1
  /\ flips = [n |-> 0, subject |-> FALSE, decision |-> guardDecision]
  /\ RunStart

PlainPR ==
  [isPullRequest |-> TRUE, hasSkipLabel |-> FALSE, isFork |-> FALSE, draft |-> FALSE]

PlainInputs ==
  [fixers |-> I_EslintPrettier, paths |-> <<>>, allowedBots |-> B_None,
   commitMessage |-> M_Default, dryRun |-> FALSE, debug |-> FALSE,
   skipDraftPrs |-> FALSE]

UserCommit == [author |-> A_Regular, subject |-> M_Regular]

\* nothing fails: the events, the last commit's author, the allowed bots and
\* the skip-draft-PRs input vary
InitCalm ==
  Scenario({}, {<<>>},
           {[PlainInputs EXCEPT !.allowedBots = b, !.skipDraftPrs = s] :
              b \in {B_None, B_Dependabot}, s \in BOOLEAN},
           {EmptyConfig}, {TRUE}, Contexts,
           [author : {A_Regular, A_Dependabot, A_Actions}, subject : {M_Regular}])

\* the loop guard's git log reads may fail
InitGuardFaults ==
  Scenario({"guard"}, {<<>>},
           {[PlainInputs EXCEPT !.allowedBots = b] : b \in {B_None, B_Dependabot}},
           {EmptyConfig}, {TRUE}, {PlainPR},
           [author : {A_Regular, A_Dependabot, S_FelixUser},
            subject : {M_Regular, M_Default}])

\* the API and the git diff ranges may fail
InitDiscoveryFaults ==
  Scenario({"discovery"}, {<<>>},
           {[PlainInputs EXCEPT !.dryRun = TRUE, !.paths = p] : p \in {<<>>, P_SrcLib}},
           {EmptyConfig, ConfigPaths}, BOOLEAN, {PlainPR}, {UserCommit})

\* the fixers' tools may be missing, exit non-zero or fail to start
InitFixerFaults ==
  Scenario({"fixers"}, {<<>>},
           {[PlainInputs EXCEPT !.fixers = f, !.dryRun = d] :
              f \in {I_EslintPrettier, I_PrettierUnknown}, d \in BOOLEAN},
           {EmptyConfig, ConfigInline}, {TRUE}, {PlainPR}, {UserCommit})

\* the git commands of commitChanges and the comment may fail
InitCommitFaults ==
  Scenario({"commit"}, {<<>>, A_Regular},
           {[PlainInputs EXCEPT !.allowedBots = b, !.commitMessage = m,
                                !.dryRun = d, !.debug = g] :
              b \in {B_None, B_Felix}, m \in {M_Default, M_Custom},
              d \in BOOLEAN, g \in BOOLEAN},
           {EmptyConfig}, {TRUE}, {PlainPR}, {UserCommit})

\* nothing fails: the fixers and paths inputs and the configuration document vary
InitRouting ==
  Scenario({}, {<<>>},
           {[PlainInputs EXCEPT !.fixers = f, !.paths = p, !.dryRun = TRUE] :
              f \in {I_EslintPrettier, I_UpperCase}, p \in {<<>>, P_Src, P_SrcGlob}},
           {EmptyConfig, ConfigInline, ConfigLegacy, ConfigBoth}, {TRUE}, {PlainPR},
           {UserCommit})

\* nothing fails, and the job runs the action a second time on the same
\* checkout
InitSecondRun ==
  Scenario({"second run"}, {<<>>},
           {[PlainInputs EXCEPT !.dryRun = d] : d \in BOOLEAN},
           {EmptyConfig}, {TRUE}, {PlainPR}, {UserCommit})

Init ==
  \/ InitRouting
  \/ InitSecondRun
  \/ InitCalm
  \/ InitGuardFaults
  \/ InitDiscoveryFaults
  \/ InitFixerFaults
  \/ InitCommitFaults

mayFail(step) == step \in env.faults

\* ------------------------------------------------------------------------
\* FixitFelix.run, step by step
\* ------------------------------------------------------------------------
\* variant: pull requests from forks are processed
shouldSkipForksAllowed(c) == ~c.isPullRequest \/ c.hasSkipLabel

\* shouldSkip(): not a pull request, skip label, or a fork
shouldSkip(c) == ~c.isPullRequest \/ c.hasSkipLabel \/ c.isFork

\* run() 34-38
ShouldSkip ==
  /\ pc = "start"
  /\ pc' = IF shouldSkip(ctx) THEN "done" ELSE "guard"
  /\ UNCHANGED <<env, inputs, config, hasToken, ctx, lastCommit, gitUser, modified,
                 runNo, guard, prFiles, strategy, fixerIdx, result, execLog, ops,
                 flips,
                 discLog>>

\* run() 40-44 with isInfiniteLoopRisk(): each git log may fail
LoopGuard ==
  /\ pc = "guard"
  /\ \E authorOk \in BOOLEAN, subjectOk \in BOOLEAN :
       LET authorRead == [ok |-> authorOk, out |-> lastCommit.author]
           subjectRead == [ok |-> subjectOk, out |-> lastCommit.subject]
           second == guardReadsSubject(authorRead, inputs.allowedBots)
           risk == isInfiniteLoopRisk(authorRead, subjectRead, inputs.allowedBots)
       IN /\ (~mayFail("guard") => authorOk /\ subjectOk)
          /\ (~second => subjectOk)
          /\ guard' = [done |-> TRUE, authorOk |-> authorOk,
                       subjectRead |-> IF ~second THEN "none"
                                       ELSE IF subjectOk THEN "ok" ELSE "failed",
                       risk |-> risk, head |-> lastCommit]
          /\ ops' = ops \o <<Op("git log author", 0, authorOk)>>
                        \o (IF second THEN <<Op("git log subject", 0, subjectOk)>>
                            ELSE <<>>)
          /\ pc' = IF risk THEN "done" ELSE "discover"
  /\ UNCHANGED <<env, inputs, config, hasToken, ctx, lastCommit, gitUser, modified,
                 runNo, prFiles, strategy, fixerIdx, result, execLog, flips,
                 discLog>>

\* variant: the listing is returned as it is
existingOnlyUnfiltered(listing) == listing

\* the files of a listing that exist on disk, order kept
existingOnly(listing) == SelectSeq(listing, existsSync)

gitStrategies == <<"origin/base.ref...HEAD", "base.sha...HEAD", "HEAD~1", "HEAD^">>

\* run() 46-53: what run() does with the list getChangedFilesInPR() returned
Discovered(files) ==
  /\ prFiles' = files
  /\ pc' = IF Len(files) = 0 THEN "done" ELSE "fixers"
  /\ fixerIdx' = IF Len(files) = 0 THEN fixerIdx ELSE 1

\* variant: only the first page of the listing is used
paginateFirstPage(pages) == IF pages = <<>> THEN <<>> ELSE pages[1]

\* octokit.paginate(listFiles): the entries of every page, in order
RECURSIVE paginate(_)
paginate(pages) ==
  IF pages = <<>> THEN <<>> ELSE Head(pages) \o paginate(Tail(pages))

\* one attempt of getChangedFilesInPR(): `pages` is what the source listed
Attempt(by, n, ok, pages) == [by |-> by, n |-> n, ok |-> ok, pages |-> pages]

\* getChangedFilesInPR() 520-548: the API listing
DiscoverApi ==
  /\ pc = "discover"
  /\ \/ /\ hasToken
        /\ \E pages \in ApiListings :
             /\ ops' = Append(ops, Op("api listFiles", 0, TRUE))
             /\ discLog' = Append(discLog, Attempt("api", 0, TRUE, pages))
             /\ Discovered(existingOnly(paginate(pages)))
             /\ strategy' = strategy
     \/ /\ ~hasToken \/ mayFail("discovery")
        /\ ops' = IF hasToken THEN Append(ops, Op("api listFiles", 0, FALSE)) ELSE ops
        /\ discLog' = IF hasToken THEN Append(discLog, Attempt("api", 0, FALSE, <<>>))
                      ELSE discLog
        /\ pc' = "discover_git"
        /\ strategy' = 1
        /\ UNCHANGED <<prFiles, fixerIdx>>
  /\ UNCHANGED <<env, inputs, config, hasToken, ctx, lastCommit, gitUser, modified,
                 runNo, guard, result, execLog, flips>>

\* variant: a range whose git diff succeeded is returned even when empty
rangeYieldsWhenOk(ok, files) == ok

\* 559-589: the range is returned when git diff succeeded and an existing
\* file is left; a failure is caught and the next range is tried
rangeYields(ok, files) == ok /\ Len(files) > 0

\* getChangedFilesInPR() 550-594: one git diff range, and after the last one
\* the configured paths
DiscoverGit ==
  /\ pc = "discover_git"
  /\ \E ok \in BOOLEAN, listing \in Listings :
       LET files == existingOnly(listing)
           tried == Append(discLog, Attempt("git", strategy, ok, <<listing>>))
       IN /\ (~mayFail("discovery") => ok)
          /\ (~ok => listing = <<>>)
          /\ ops' = Append(ops, Op("git diff range", strategy, ok))
          /\ IF rangeYields(ok, files)
               THEN Discovered(files) /\ strategy' = strategy /\ discLog' = tried
             ELSE IF strategy < Len(gitStrategies)
               THEN /\ strategy' = strategy + 1
                    /\ discLog' = tried
                    /\ UNCHANGED <<pc, prFiles, fixerIdx>>
             ELSE /\ Discovered(getPaths(inputs, config))
                  /\ strategy' = strategy
                  /\ discLog' = Append(tried, Attempt("paths", 0, TRUE,
                                                     <<getPaths(inputs, config)>>))
  /\ UNCHANGED <<env, inputs, config, hasToken, ctx, lastCommit, gitUser, modified,
                 runNo, guard, result, execLog, flips>>

\* isAvailable(): the tool is installed locally, or `npx <tool> --version`
\* answers, or neither; a custom fixer is always available
Probes(kind) == IF kind = "custom" THEN {"always"} ELSE {"local", "npx", "missing"}

\* the name a fixer reports: built-in fixers use their own lowercase name
reportedName(kind, fixerName) ==
  IF kind = "eslint" THEN S_eslint
  ELSE IF kind = "prettier" THEN S_prettier
  ELSE IF kind = "markdownlint" THEN S_markdownlint
  ELSE IF kind = "oxlint" THEN S_oxlint
  ELSE fixerName

\* variant: the newest FixerResult is put first
recordResultFirst(res, fixerResult) ==
  LET pushedRes == [res EXCEPT !.fixerResults = <<fixerResult>> \o @]
  IN IF fixerResult.success /\ Len(fixerResult.changedFiles) > 0
       THEN [pushedRes EXCEPT !.changedFiles = @ \o fixerResult.changedFiles,
                              !.fixesApplied = TRUE]
     ELSE IF ~fixerResult.success
       THEN [pushedRes EXCEPT !.hasFailures = TRUE]
     ELSE pushedRes

\* run() 96-108: one FixerResult folded into the FelixResult
recordResult(res, fixerResult) ==
  LET pushedRes == [res EXCEPT !.fixerResults = Append(@, fixerResult)]
  IN IF fixerResult.success /\ Len(fixerResult.changedFiles) > 0
       THEN [pushedRes EXCEPT !.changedFiles = @ \o fixerResult.changedFiles,
                              !.fixesApplied = TRUE]
     ELSE IF ~fixerResult.success
       THEN [pushedRes EXCEPT !.hasFailures = TRUE]
     ELSE pushedRes

\* run() 59-109: one iteration of the loop over getFixers()
FixerStep ==
  /\ pc = "fixers"
  /\ fixerIdx <= Len(fixers)
  /\ LET fixerName == fixers[fixerIdx]
         fixerConfig == getFixerConfig(config, fixerName)
         unknown == ~isAvailableFixerName(fixerName) /\ ~hasCommand(fixerConfig)
         configuredPaths == getFixerPaths(inputs, config, fixerName)
         relevantFiles ==
           filterFilesByFixer(prFiles, fixerName, fixerConfig, configuredPaths)
         kind == createFixer(fixerName, fixerConfig)
     IN IF unknown \/ Len(relevantFiles) = 0 \/ kind = "null"
        THEN UNCHANGED <<result, execLog, ops, modified>>
        ELSE \E probe \in Probes(kind), threw \in BOOLEAN, exitCode \in ExitCodes,
                after \in SUBSET {TrackedFiles[i] : i \in 1..Len(TrackedFiles)},
                diffOk \in BOOLEAN :
               LET available == probe # "missing"
                   ran == available /\ ~threw
                   diff == getChangedFiles(diffOk, after)
                   fixerResult ==
                     fixerRun(reportedName(kind, fixerName), available, threw,
                              exitCode, diff)
               IN /\ (~mayFail("fixers") =>
                        probe \in {"local", "always"} /\ ~threw /\ exitCode = 0 /\ diffOk)
                  /\ (~ran => exitCode = 0 /\ after = modified /\ diffOk)
                  /\ modified' = after
                  /\ ops' = ops
                       \o (IF probe \in {"npx", "missing"}
                           THEN <<Op("probe", fixerIdx, available)>> ELSE <<>>)
                       \o (IF available THEN <<Op("fixer", fixerIdx, ~threw)>> ELSE <<>>)
                       \o (IF ran THEN <<Op("git diff", fixerIdx, diffOk)>> ELSE <<>>)
                  /\ result' = recordResult(result, fixerResult)
                  /\ execLog' = Append(execLog,
                       [idx |-> fixerIdx, available |-> available, threw |-> threw,
                        exitCode |-> exitCode, diffOk |-> diffOk, diff |-> diff,
                        files |-> relevantFiles, before |-> modified,
                        after |-> after])
  /\ fixerIdx' = fixerIdx + 1
  /\ UNCHANGED <<env, inputs, config, hasToken, ctx, lastCommit, gitUser, pc, runNo,
                 guard, prFiles, strategy, flips,
                 discLog>>

\* variant: dry-run is not looked at
afterFixersAlwaysCommit(fixesApplied, dryRun) ==
  IF fixesApplied THEN "commit" ELSE "return"

\* run() 120-126: what follows the loop
afterFixers(fixesApplied, dryRun) ==
  IF fixesApplied /\ ~dryRun THEN "commit"
  ELSE IF fixesApplied /\ dryRun THEN "comment"
  ELSE "return"

\* run() 111-128 with commentOnPR(): the comment needs a token and may fail
Finish ==
  /\ pc = "fixers"
  /\ fixerIdx > Len(fixers)
  /\ result' = [result EXCEPT
                  !.changedFiles = dedupe(@),
                  !.hasFailures = aggregateFailures(result.fixesApplied, @)]
  /\ LET next == afterFixers(result.fixesApplied, inputs.dryRun)
     IN /\ pc' = IF next = "commit" THEN "commit" ELSE "done"
        /\ IF next = "comment" /\ hasToken
           THEN \E ok \in BOOLEAN :
                  /\ (~mayFail("commit") => ok)
                  /\ ops' = Append(ops, Op("create comment", 0, ok))
           ELSE ops' = ops
  /\ UNCHANGED <<env, inputs, config, hasToken, ctx, lastCommit, gitUser, modified,
                 runNo, guard, prFiles, strategy, fixerIdx, execLog, flips,
                 discLog>>

\* ------------------------------------------------------------------------
\* FixitFelix.commitChanges, step by step. Any exec that rejects is caught at
\* 330-332 and rethrown: run() ends with 'Failed to commit changes'.
\* ------------------------------------------------------------------------
\* what `git add <changedFiles>` stages: the listed files that are modified
stagedBy(changedFiles, tree) ==
  {f \in tree : seqContains(changedFiles, f)}

\* commitChanges() 216-240: configureGitAuth (a failure is only warned about),
\* ensureCorrectBranch, git add, git diff --cached (logged with the number
\* of staged files it prints)
CommitStage ==
  /\ pc = "commit"
  /\ \E pat \in {"none", "ok", "failed"}, branch \in {"attached", "checkout", "failed"},
        addOk \in BOOLEAN, cachedOk \in BOOLEAN :
       LET staged == stagedBy(result.changedFiles, modified)
           reachedAdd == branch # "failed"
           reachedCached == reachedAdd /\ addOk
       IN /\ (~mayFail("commit") =>
                pat = "none" /\ branch = "attached" /\ addOk /\ cachedOk)
          /\ (~reachedAdd => addOk)
          /\ (~reachedCached => cachedOk)
          /\ ops' = ops
               \o (IF pat # "none" THEN <<Op("git remote set-url", 0, pat = "ok")>>
                   ELSE <<>>)
               \o (IF branch # "attached"
                   THEN <<Op("git checkout", 0, branch = "checkout")>> ELSE <<>>)
               \o (IF reachedAdd THEN <<Op("git add", 0, addOk)>> ELSE <<>>)
               \o (IF reachedCached
                   THEN <<Op("git diff cached", Cardinality(staged), cachedOk)>>
                   ELSE <<>>)
          /\ modified' = IF reachedCached THEN modified \ staged ELSE modified
          /\ pc' = IF ~(reachedCached /\ cachedOk) THEN "threw"
                   ELSE IF staged = {} THEN "done"
                   ELSE "commit_create"
  /\ UNCHANGED <<env, inputs, config, hasToken, ctx, lastCommit, gitUser, runNo, guard,
                 prFiles, strategy, fixerIdx, result, execLog, flips,
                 discLog>>

\* configureGitUser() 401-408: user.name then user.email, a failure is only
\* warned about; the value user.name has afterwards
configureGitUser(nameOk, current) == IF nameOk THEN S_FelixUser ELSE current

\* commitChanges() 242-273: configureGitUser, git commit, and in debug mode
\* git rev-parse HEAD. git commit needs an author identity.
CommitCreate ==
  /\ pc = "commit_create"
  /\ \E nameOk \in BOOLEAN, emailOk \in BOOLEAN, commitOk \in BOOLEAN,
        revParseOk \in BOOLEAN :
       LET user == configureGitUser(nameOk, gitUser)
       IN /\ (~mayFail("commit") => nameOk /\ emailOk /\ commitOk /\ revParseOk)
          /\ (~nameOk => emailOk)
          /\ (user = <<>> => ~commitOk)
          /\ (~(commitOk /\ inputs.debug) => revParseOk)
          /\ gitUser' = user
          /\ ops' = ops
               \o <<Op("git config user.name", 0, nameOk)>>
               \o (IF nameOk THEN <<Op("git config user.email", 0, emailOk)>> ELSE <<>>)
               \o <<Op("git commit", 0, commitOk)>>
               \o (IF commitOk /\ inputs.debug
                   THEN <<Op("git rev-parse", 0, revParseOk)>> ELSE <<>>)
          /\ lastCommit' = IF commitOk
                           THEN [author |-> user, subject |-> inputs.commitMessage]
                           ELSE lastCommit
          /\ pc' = IF commitOk /\ revParseOk THEN "commit_push" ELSE "threw"
  /\ UNCHANGED <<env, inputs, config, hasToken, ctx, modified, runNo, guard, prFiles,
                 strategy, fixerIdx, result, execLog, flips,
                 discLog>>

\* variant: a failed push is always followed by another fetch, rebase and push
afterPushRetryAgain(attempt, ok) == IF ok THEN "done" ELSE "commit_retry"

\* commitChanges() 287-321: where a push leaves commitChanges; the second
\* push's failure is rethrown
afterPush(attempt, ok) ==
  IF ok THEN "done" ELSE IF attempt = 1 THEN "commit_retry" ELSE "threw"

\* commitChanges() 275-301: the push to the pull request's branch
CommitPush ==
  /\ pc = "commit_push"
  /\ \E pushOk \in BOOLEAN :
       /\ (~mayFail("commit") => pushOk)
       /\ ops' = Append(ops, Op("git push", 1, pushOk))
       /\ pc' = afterPush(1, pushOk)
  /\ UNCHANGED <<env, inputs, config, hasToken, ctx, lastCommit, gitUser, modified,
                 runNo, guard, prFiles, strategy, fixerIdx, result, execLog, flips,
                 discLog>>

\* commitChanges() 302-321: fetch, rebase, push again; a failure is rethrown
CommitRetry ==
  /\ pc = "commit_retry"
  /\ \E fetchOk \in BOOLEAN, rebaseOk \in BOOLEAN, pushOk \in BOOLEAN :
       /\ (~fetchOk => rebaseOk)
       /\ (~(fetchOk /\ rebaseOk) => pushOk)
       /\ ops' = ops
            \o <<Op("git fetch", 0, fetchOk)>>
            \o (IF fetchOk THEN <<Op("git rebase", 0, rebaseOk)>> ELSE <<>>)
            \o (IF fetchOk /\ rebaseOk THEN <<Op("git push", 2, pushOk)>> ELSE <<>>)
       /\ pc' = IF fetchOk /\ rebaseOk THEN afterPush(2, pushOk) ELSE "threw"
  /\ UNCHANGED <<env, inputs, config, hasToken, ctx, lastCommit, gitUser, modified,
                 runNo, guard, prFiles, strategy, fixerIdx, result, execLog, flips,
                 discLog>>

\* The push of a fix commit is a new pull_request event: the action runs
\* again on a fresh checkout whose HEAD is the commit just pushed.
NextRun ==
  /\ pc = "done"
  /\ pushed
  /\ runNo < MaxRuns
  /\ runNo' = runNo + 1
  /\ modified' = {}
  /\ gitUser' = env.ambientUser
  /\ pc' = "start" /\ guard' = NoGuard /\ prFiles' = <<>> /\ strategy' = 0
  /\ fixerIdx' = 0 /\ result' = EmptyResult /\ execLog' = <<>> /\ ops' = <<>>
  /\ discLog' = <<>>
  /\ UNCHANGED <<env, inputs, config, hasToken, ctx, lastCommit, flips>>

\* A later step of the same job runs the action again: run() starts over on
\* the working tree and the git configuration the first run left.
RunAgain ==
  /\ pc = "done"
  /\ "second run" \in env.faults
  /\ runNo < MaxRuns
  /\ runNo' = runNo + 1
  /\ pc' = "start" /\ guard' = NoGuard /\ prFiles' = <<>> /\ strategy' = 0
  /\ fixerIdx' = 0 /\ result' = EmptyResult /\ execLog' = <<>> /\ ops' = <<>>
  /\ discLog' = <<>>
  /\ UNCHANGED <<env, inputs, config, hasToken, ctx, lastCommit, gitUser, modified,
                 flips>>

Next ==
  \/ ShouldSkip
  \/ LoopGuard
  \/ DiscoverApi
  \/ DiscoverGit
  \/ FixerStep
  \/ Finish
  \/ CommitStage
  \/ CommitCreate
  \/ CommitPush
  \/ CommitRetry
  \/ NextRun
  \/ RunAgain

Spec == Init /\ [][Next]_vars

\* ------------------------------------------------------------------------
\* The loop guard alone, over author names, subjects and allowed-bots inputs
\* that differ in letter case only
\* ------------------------------------------------------------------------
isLetter(c) == isUpperChar(c) \/ isLowerChar(c)

\* the string with the letter at position i in the other case
flipCase(s, i) ==
  [s EXCEPT ![i] = IF isUpperChar(@) THEN toLowerChar(@) ELSE toUpperChar(@)]

InitGuard ==
  Scenario({"guard"}, {<<>>},
           {[PlainInputs EXCEPT !.allowedBots = b] : b \in {B_None, B_Two, B_Felix}},
           {EmptyConfig}, {TRUE}, {PlainPR},
           [author : {A_Regular, A_Dependabot, A_Actions, A_FelixAction, S_FelixUser},
            subject : {M_Regular, M_Default}])

\* the last commit's author name, one letter in the other case
FlipAuthorCase ==
  /\ pc = "start"
  /\ flips.n < MaxFlips
  /\ \E i \in 1..Len(lastCommit.author) :
       /\ isLetter(lastCommit.author[i])
       /\ lastCommit' = [lastCommit EXCEPT !.author = flipCase(@, i)]
  /\ flips' = [flips EXCEPT !.n = @ + 1]
  /\ UNCHANGED <<env, inputs, config, hasToken, ctx, gitUser, modified, pc, runNo,
                 guard, prFiles, strategy, fixerIdx, result, execLog, ops,
                 discLog>>

\* the last commit's subject, one letter in the other case
FlipSubjectCase ==
  /\ pc = "start"
  /\ flips.n < MaxFlips
  /\ \E i \in 1..Len(lastCommit.subject) :
       /\ isLetter(lastCommit.subject[i])
       /\ lastCommit' = [lastCommit EXCEPT !.subject = flipCase(@, i)]
  /\ flips' = [flips EXCEPT !.n = @ + 1, !.subject = TRUE]
  /\ UNCHANGED <<env, inputs, config, hasToken, ctx, gitUser, modified, pc, runNo,
                 guard, prFiles, strategy, fixerIdx, result, execLog, ops,
                 discLog>>

\* the allowed_bots input, one letter in the other case
FlipBotsCase ==
  /\ pc = "start"
  /\ flips.n < MaxFlips
  /\ \E i \in 1..Len(inputs.allowedBots) :
       /\ isLetter(inputs.allowedBots[i])
       /\ inputs' = [inputs EXCEPT !.allowedBots = flipCase(@, i)]
  /\ flips' = [flips EXCEPT !.n = @ + 1]
  /\ UNCHANGED <<env, config, hasToken, ctx, lastCommit, gitUser, modified, pc, runNo,
                 guard, prFiles, strategy, fixerIdx, result, execLog, ops,
                 discLog>>

NextGuard ==
  \/ FlipAuthorCase
  \/ FlipSubjectCase
  \/ FlipBotsCase
  \/ ShouldSkip
  \/ LoopGuard

SpecGuard == InitGuard /\ [][NextGuard]_vars

\* ------------------------------------------------------------------------
\* Properties
\* ------------------------------------------------------------------------
returned == pc = "done"

\* the entries of fixerResults whose command was executed and exited
executed(i) == execLog[i].available /\ ~execLog[i].threw

\* C1: at the return of run(), fixesApplied = true implies hasFailures =
\* false, whatever the fixers' own results were.
C1_FixesAppliedClearsFailures ==
  returned => (result.fixesApplied => ~result.hasFailures)

\* a run that returned with a fix applied although one fixer had failed
C1_Witness ==
  /\ returned
  /\ result.fixesApplied
  /\ \E i \in 1..Len(result.fixerResults) : ~result.fixerResults[i].success

\* C2: for an available fixer whose command executed: exit code 0 gives
\* success; 126 and 127 give failure whatever the diff holds, with an error
\* naming the exit code; another non-zero code with a non-empty diff gives
\* success.
C2_Classification ==
  \A i \in 1..Len(execLog) :
    LET e == execLog[i]
        r == result.fixerResults[i]
    IN executed(i) =>
         /\ (e.exitCode = 0 => r.success)
         /\ (e.exitCode \in {126, 127} =>
               ~r.success /\ r.error = [kind |-> "exit", code |-> e.exitCode])
         /\ (e.exitCode \notin {0, 126, 127} /\ Len(e.diff) > 0 => r.success)

\* one run in which a fixer exited 127 over a non-empty diff and failed, and
\* another exited 1 over a non-empty diff and succeeded
C2_Witness ==
  \E i, j \in 1..Len(execLog) :
    /\ executed(i) /\ execLog[i].exitCode = 127 /\ Len(execLog[i].diff) > 0
    /\ ~result.fixerResults[i].success
    /\ executed(j) /\ execLog[j].exitCode = 1 /\ Len(execLog[j].diff) > 0
    /\ result.fixerResults[j].success

\* C3: for every exit code other than 0, 126 and 127, an empty post-run diff
\* gives success = true.
C3_EmptyDiffSucceeds ==
  \A i \in 1..Len(execLog) :
    (executed(i) /\ execLog[i].exitCode \notin {0, 126, 127}
       /\ Len(execLog[i].diff) = 0)
      => result.fixerResults[i].success

\* C4: if every configured fixer ran, none left a changed file and none
\* hard-failed, run() returns fixesApplied = false and hasFailures = false,
\* also for exit codes such as 1.
C4_NoChangesNoFailure ==
  (/\ returned
   /\ Len(execLog) = Len(fixers)
   /\ Len(execLog) > 0
   /\ \A i \in 1..Len(execLog) :
        /\ executed(i)
        /\ execLog[i].exitCode \notin {126, 127}
        /\ Len(result.fixerResults[i].changedFiles) = 0)
    => (~result.fixesApplied /\ ~result.hasFailures)

\* a run after a pushed fix commit ran no fixer and made no commit
quietRun == ~hasOp("fixer") /\ ~hasOp("probe") /\ ~hasOp("git commit")

\* an allowed-bots token occurs in the lowercased author name
allowListed(author, allowedBotsInput) ==
  LET tokens == splitTrimFilter(allowedBotsInput)
  IN \E k \in 1..Len(tokens) :
       includes(toLowerCase(author), toLowerCase(tokens[k]))

\* the author name or the subject carries one of the marks the guard knows
marked(commit) ==
  \/ includes(toLowerCase(commit.author), S_felix)
  \/ includes(toLowerCase(commit.author), S_bot)
  \/ includes(commit.subject, S_Signature)

guardReadsOk == guard.done /\ guard.authorOk /\ guard.subjectRead # "failed"

\* C6: the guard answers false whenever the lowercased author contains a
\* lowercased allowed-bots token, whatever else the author name contains
\* and whatever the subject says.
C6_AllowedBotProceeds ==
  (guard.done /\ guard.authorOk
     /\ allowListed(guard.head.author, inputs.allowedBots))
    => (~guard.risk /\ guard.subjectRead = "none")

\* the guard let an allow-listed author through whose name carries '[bot]'
\* and 'felix' and whose commit carries the signature
C6_Witness ==
  /\ guard.done
  /\ guard.authorOk
  /\ allowListed(guard.head.author, inputs.allowedBots)
  /\ includes(toLowerCase(guard.head.author), S_bot)
  /\ includes(toLowerCase(guard.head.author), S_felix)
  /\ includes(guard.head.subject, S_Signature)
  /\ ~guard.risk
  /\ pc = "discover"

guardReadFailed == guard.done /\ (~guard.authorOk \/ guard.subjectRead = "failed")

discoveryStarted == hasOp("api listFiles") \/ hasOp("git diff range")

\* C8: if a git log read of the guard fails, the guard answers false and the
\* run goes on to change discovery.
C8_GuardFailsOpen ==
  guardReadFailed =>
    /\ ~guard.risk
    /\ pc # "guard"
    /\ (pc # "discover" => discoveryStarted)

\* the author read failed on a commit made by Felix, and a fixer ran
C8_Witness ==
  /\ guard.done
  /\ ~guard.authorOk
  /\ guard.head.author = S_FelixUser
  /\ hasOp("fixer")

\* C9 as stated: changing only the letter case of the author name, of the
\* allowed-bots tokens or of the subject never changes the guard's decision.
C9_CaseNeverMatters ==
  guardReadsOk => guard.risk = flips.decision

\* C9, amended: changing only the letter case of the author name or of the
\* allowed-bots tokens never changes the guard's decision (the subject is
\* matched against 'Fix-it Felix' as written).
C9_AuthorAndBotsCaseInsensitive ==
  (guardReadsOk /\ ~flips.subject) => guard.risk = flips.decision

\* after a change of letter case the guard let an author through whose
\* name contains an allowed-bots token only once both are lowercased
C9_Witness ==
  /\ flips.n > 0
  /\ ~flips.subject
  /\ guardReadsOk
  /\ ~guard.risk
  /\ allowListed(guard.head.author, inputs.allowedBots)
  /\ ~isAllowedBotCased(guard.head.author, splitTrimFilter(inputs.allowedBots))
  /\ includes(toLowerCase(guard.head.author), S_bot)

commitRoute == pc \in {"commit", "commit_create", "commit_push", "commit_retry"}

\* C10: in dry-run mode no run reaches git add, git commit or git push, and
\* a comment is posted only after fixes were applied; with dry-run off a run
\* that applied fixes enters commitChanges and never comments.
C10_DryRunNeverCommits ==
  /\ inputs.dryRun =>
       /\ ~hasOp("git add") /\ ~hasOp("git commit") /\ ~hasOp("git push")
       /\ ~commitRoute
       /\ (hasOp("create comment") => result.fixesApplied)
       /\ (returned /\ result.fixesApplied /\ hasToken => hasOp("create comment"))
  /\ ~inputs.dryRun =>
       /\ ~hasOp("create comment")
       /\ (returned /\ result.fixesApplied => hasOp("git add"))
       /\ (hasOp("git add") => result.fixesApplied)

\* a dry run that applied fixes and returned with the comment posted
C10_Witness ==
  /\ inputs.dryRun
  /\ returned
  /\ result.fixesApplied
  /\ hasOp("create comment")
  /\ ~hasOp("git add")

\* the API listing was made and succeeded
apiListed == discLog # <<>> /\ discLog[1].by = "api" /\ discLog[1].ok

\* file f stands before file g in the pages
listedBefore(pages, f, g) ==
  \E k, l \in 1..Len(pages) :
    \E i \in 1..Len(pages[k]), j \in 1..Len(pages[l]) :
      /\ pages[k][i] = f
      /\ pages[l][j] = g
      /\ (k < l \/ (k = l /\ i < j))

\* C11: when the API listing succeeds, the change set holds every file of
\* every result page that exists on disk, in listing order, and nothing
\* else: later pages are not dropped.
C11_AllPagesKept ==
  apiListed =>
    LET pages == discLog[1].pages
    IN /\ \A k \in 1..Len(pages) : \A i \in 1..Len(pages[k]) :
            existsSync(pages[k][i]) => seqContains(prFiles, pages[k][i])
       /\ \A a \in 1..Len(prFiles) :
            /\ existsSync(prFiles[a])
            /\ \E k \in 1..Len(pages) : seqContains(pages[k], prFiles[a])
       /\ \A a, b \in 1..Len(prFiles) :
            a < b => listedBefore(pages, prFiles[a], prFiles[b])

\* a listing of two pages whose second page's file is in the change set,
\* behind the first page's, and the fixers are about to run on it
C11_Witness ==
  /\ apiListed
  /\ Len(discLog[1].pages) = 2
  /\ prFiles = <<F_readme, F_app>>
  /\ seqContains(discLog[1].pages[2], F_app)
  /\ pc = "fixers"

\* the attempt is a diff range that was passed over
passedOver(a) ==
  a.by = "git" /\ (~a.ok \/ \A i \in 1..Len(a.pages[1]) : ~existsSync(a.pages[1][i]))

\* C12: when the API step fails or there is no token, the diff ranges
\* origin/<base-ref>...HEAD, <base-sha>...HEAD, HEAD~1, HEAD^ are tried in
\* that order; a range that fails or yields no existing file is passed over,
\* the first range yielding an existing file is returned and no later range
\* is run, and no failure ends the run.
C12_RangesInOrder ==
  /\ gitStrategies = <<"origin/base.ref...HEAD", "base.sha...HEAD", "HEAD~1", "HEAD^">>
  /\ pc # "threw" \/ hasOp("git add") \/ hasOp("git checkout")
  /\ \A i \in 1..Len(discLog) :
       LET a == discLog[i]
       IN a.by = "git" =>
            /\ a.n \in 1..Len(gitStrategies)
            /\ IF i = 1 THEN ~hasToken /\ a.n = 1
               ELSE \/ discLog[i - 1].by = "api" /\ ~discLog[i - 1].ok /\ a.n = 1
                    \/ passedOver(discLog[i - 1]) /\ a.n = discLog[i - 1].n + 1
            /\ IF passedOver(a)
               THEN IF i = Len(discLog)
                    THEN pc = "discover_git" /\ strategy = a.n + 1
                    ELSE discLog[i + 1].by = IF a.n < Len(gitStrategies)
                                             THEN "git" ELSE "paths"
               ELSE /\ i = Len(discLog)
                    /\ prFiles = SelectSeq(a.pages[1], existsSync)
                    /\ pc \notin {"discover", "discover_git"}

\* the first range failed, the second listed only a deleted file, the third
\* was returned and the fixers are about to run
C12_Witness ==
  /\ Len(discLog) >= 3
  /\ \E i \in 1..(Len(discLog) - 2) :
       /\ discLog[i].by = "git" /\ discLog[i].n = 1 /\ ~discLog[i].ok
       /\ discLog[i + 1].ok /\ discLog[i + 1].pages = <<<<F_old>>>>
       /\ discLog[i + 2].ok /\ ~passedOver(discLog[i + 2])
       /\ i + 2 = Len(discLog)
  /\ prFiles # <<>>
  /\ pc = "fixers"

\* getChangedFilesInPR() has returned
discoveryEnded == discLog # <<>> /\ pc \notin {"start", "guard", "discover", "discover_git"}

lastAttempt == discLog[Len(discLog)]

\* C13: an API call that succeeds but lists no file that still exists does
\* not end discovery with an empty change set: the diff ranges are tried
\* next.
C13_EmptyApiMovesOn ==
  (/\ apiListed
   /\ \A k \in 1..Len(discLog[1].pages) : \A i \in 1..Len(discLog[1].pages[k]) :
        ~existsSync(discLog[1].pages[k][i]))
    => /\ Len(discLog) >= 2 => discLog[2].by = "git"
       /\ ~(discoveryEnded /\ Len(discLog) = 1 /\ prFiles = <<>>)

\* C14 as stated: every path returned by getChangedFilesInPR() exists on
\* disk, whichever source produced it, the configured-paths fallback included.
C14_EveryPathExists ==
  discoveryEnded => \A a \in 1..Len(prFiles) : existsSync(prFiles[a])

\* C14, amended: every path returned from the API listing or from a diff
\* range exists on disk when it is returned; the configured-paths fallback
\* returns getPaths() as it is.
C14_ListedPathsExist ==
  discoveryEnded =>
    IF lastAttempt.by = "paths"
    THEN prFiles = lastAttempt.pages[1]
    ELSE \A a \in 1..Len(prFiles) :
           /\ existsSync(prFiles[a])
           /\ \E k \in 1..Len(lastAttempt.pages) :
                seqContains(lastAttempt.pages[k], prFiles[a])

\* a diff range listed a deleted file among others and was returned
\* without it
C14_Witness ==
  /\ discoveryEnded
  /\ lastAttempt.by = "git"
  /\ seqContains(lastAttempt.pages[1], F_old)
  /\ prFiles = <<F_readme, F_app>>

\* the name is one of the built-in fixers'
isBuiltIn(name) ==
  toLowerCase(name) \in {S_eslint, S_prettier, S_markdownlint, S_oxlint}

\* C15: when the API and all four diff ranges fail or yield nothing, the
\* change set is getPaths(), and the run goes on to execute the configured
\* built-in fixers on those paths.
C15_FallbackRunsFixers ==
  (/\ discoveryEnded
   /\ lastAttempt.by = "paths"
   /\ returned
   /\ \E i \in 1..Len(fixers) : isBuiltIn(fixers[i]))
    => (prFiles = getPaths(inputs, config) /\ hasOp("fixer"))

\* run() is past the iteration for the i-th name of getFixers()
processed(i) == (pc = "fixers" /\ fixerIdx > i) \/ pc \in {"done", "threw"} \/ commitRoute

\* the iteration for the i-th name executed a fixer
ranFixer(i) == \E j \in 1..Len(execLog) : execLog[j].idx = i

\* file f lies in directory p
underDirectory(f, p) ==
  Len(f) > Len(p) + 1 /\ SubSeq(f, 1, Len(p)) = p /\ f[Len(p) + 1] = "/"

\* C16: a configured path that names a directory selects it recursively: a
\* changed file under it whose extension the fixer handles is routed to
\* that fixer.
C16_DirectoryIsRecursive ==
  \A i \in 1..Len(fixers) :
    (/\ processed(i)
     /\ isAvailableFixerName(fixers[i])
     /\ \E a \in 1..Len(prFiles) :
          /\ filterFilesByFixer(<<prFiles[a]>>, fixers[i],
                                getFixerConfig(config, fixers[i]), <<S_dot>>) # <<>>
          /\ \E k \in 1..Len(getFixerPaths(inputs, config, fixers[i])) :
               underDirectory(prFiles[a], getFixerPaths(inputs, config, fixers[i])[k]))
      => ranFixer(i)

configuredNames ==
  IF config.fixers # <<>>
  THEN [i \in 1..Len(config.fixers) |->
          IF config.fixers[i].isObject THEN config.fixers[i].obj.name
          ELSE config.fixers[i].str]
  ELSE splitTrimFilter(inputs.fixers)

inlineObjects ==
  {config.fixers[i].obj : i \in {k \in 1..Len(config.fixers) : config.fixers[k].isObject}}

\* the document that writes the settings of inline object o as a legacy
\* block keyed by its name, the fixers array holding names only
asLegacy(o) ==
  [fixers |-> [i \in 1..Len(config.fixers) |->
                 [isObject |-> FALSE, str |-> getFixerName(config.fixers[i]),
                  obj |-> EmptyFixerConfig]],
   paths |-> config.paths,
   legacy |-> <<[key |-> o.name,
                 block |-> [o EXCEPT !.hasName = FALSE, !.name = <<>>]]>>]

\* a FixerConfig without its name property
settingsOf(c) == [c EXCEPT !.hasName = FALSE, !.name = <<>>]

hasLegacyBlock(name) == \E i \in 1..Len(config.legacy) : config.legacy[i].key = name

\* C19 as stated: getFixerConfig(name) returns an identical FixerConfig for
\* the legacy block and for the inline object that carry the same settings.
C19_FormsIdentical ==
  \A o \in inlineObjects :
    getFixerConfig(asLegacy(o), o.name) = getFixerConfig(config, o.name)

\* C19, amended: the legacy block and the inline object carrying the same
\* settings give the same settings (command, extensions, paths); the inline
\* form's result also carries the name property. When both forms exist for
\* one name the inline object is returned, and the fixer is routed by it.
C19_FormsSameSettings ==
  \A o \in inlineObjects :
    /\ settingsOf(getFixerConfig(asLegacy(o), o.name)) = settingsOf(o)
    /\ getFixerConfig(config, o.name) = o
    /\ \A j \in 1..Len(execLog) :
         fixers[execLog[j].idx] = o.name =>
           execLog[j].files =
             filterFilesByFixer(prFiles, o.name, o,
                                getFixerPaths(inputs, config, o.name))

\* prettier ran on README.md alone, by the inline object's extensions,
\* although a legacy block for prettier lists other extensions
C19_Witness ==
  /\ config = ConfigBoth
  /\ prFiles = <<F_readme, F_app>>
  /\ \E j \in 1..Len(execLog) :
       /\ fixers[execLog[j].idx] = S_prettier
       /\ hasLegacyBlock(S_prettier)
       /\ execLog[j].files = <<F_readme>>

\* C20: a configured name that is a built-in fixer's name in another letter
\* case is executed as that fixer, with the routing of the lowercase name.
C20_NamesCaseInsensitive ==
  \A i \in 1..Len(fixers) :
    (/\ processed(i)
     /\ isBuiltIn(fixers[i])
     /\ filterFilesByFixer(prFiles, toLowerCase(fixers[i]),
                           getFixerConfig(config, toLowerCase(fixers[i])),
                           getFixerPaths(inputs, config, toLowerCase(fixers[i]))) # <<>>)
      => \E j \in 1..Len(execLog) :
           /\ execLog[j].idx = i
           /\ result.fixerResults[j].name = toLowerCase(fixers[i])

\* the i-th configured name is no built-in fixer's and its configuration
\* carries no command
unknownName(i) ==
  ~isBuiltIn(fixers[i]) /\ Len(getFixerConfig(config, fixers[i]).command) = 0

\* C21: a configured name that is neither a built-in nor has a non-empty
\* custom command is skipped: no FixerResult is recorded for it, hasFailures
\* is set by failed results only, the fixers after it are still run, and
\* run() returns from the loop only after the last name.
C21_UnknownFixerSkipped ==
  /\ Len(result.fixerResults) = Len(execLog)
  /\ \A j \in 1..Len(execLog) : ~unknownName(execLog[j].idx)
  /\ result.hasFailures =>
       \E j \in 1..Len(result.fixerResults) : ~result.fixerResults[j].success
  /\ \A i, k \in 1..Len(fixers) :
       (/\ unknownName(i) /\ k > i /\ processed(k)
        /\ isAvailableFixerName(fixers[k])
        /\ filterFilesByFixer(prFiles, fixers[k], getFixerConfig(config, fixers[k]),
                              getFixerPaths(inputs, config, fixers[k])) # <<>>)
         => ranFixer(k)
  /\ returned /\ fixerIdx > 0 => fixerIdx = Len(fixers) + 1

\* the first name was unknown and skipped, the second fixer ran, and the
\* run returned with one result and no failure
C21_Witness ==
  /\ returned
  /\ Len(fixers) = 2
  /\ unknownName(1)
  /\ ranFixer(2)
  /\ Len(result.fixerResults) = 1
  /\ ~result.hasFailures

\* C22: when isAvailable() is false, the FixerResult has success = false,
\* an error and empty changedFiles, neither the fixer's command nor the
\* post-run git diff was executed, and the loop goes on: the result is
\* recorded and the fixers after it are still run.
C22_UnavailableRecorded ==
  /\ \A j \in 1..Len(execLog) :
       LET opsOf(i, name) == {k \in 1..Len(ops) : ops[k].op = name /\ ops[k].n = i}
       IN ~execLog[j].available =>
         /\ j <= Len(result.fixerResults)
         /\ ~result.fixerResults[j].success
         /\ result.fixerResults[j].changedFiles = <<>>
         /\ result.fixerResults[j].error = [kind |-> "unavailable", code |-> 0]
         /\ opsOf(execLog[j].idx, "fixer") = {}
         /\ opsOf(execLog[j].idx, "git diff") = {}
         /\ \A k \in 1..Len(fixers) :
              (/\ k > execLog[j].idx /\ processed(k)
               /\ isAvailableFixerName(fixers[k])
               /\ filterFilesByFixer(prFiles, fixers[k],
                                     getFixerConfig(config, fixers[k]),
                                     getFixerPaths(inputs, config, fixers[k])) # <<>>)
                => ranFixer(k)
  /\ (pc = "fixers" /\ execLog # <<>>) => fixerIdx > execLog[Len(execLog)].idx

\* eslint was not available, its failure was recorded, and prettier ran
\* after it
C22_Witness ==
  /\ returned
  /\ Len(execLog) = 2
  /\ ~execLog[1].available
  /\ ~result.fixerResults[1].success
  /\ execLog[2].available
  /\ \E k \in 1..Len(ops) : ops[k].op = "fixer" /\ ops[k].n = execLog[2].idx

\* the commands BaseFixer.run() executes, in the order it executes them
fixerOps == <<"probe", "fixer", "git diff">>

\* C23: fixers run one after another in the order of getFixers(): the
\* probes, commands and post-run diffs appear grouped by fixer, in list
\* order, each fixer's own in the order probe, command, diff; a command that
\* ran has its diff made before anything of a later fixer; and
\* fixerResults lists the fixers that ran in that same order.
C23_OneAtATimeInOrder ==
  /\ LET isFixerOp(o) == \E r \in 1..Len(fixerOps) : fixerOps[r] = o.op
         rankOf(o) == CHOOSE r \in 1..Len(fixerOps) : fixerOps[r] = o.op
     IN /\ \A a, b \in 1..Len(ops) :
             (a < b /\ isFixerOp(ops[a]) /\ isFixerOp(ops[b])) =>
               \/ ops[a].n < ops[b].n
               \/ ops[a].n = ops[b].n /\ rankOf(ops[a]) < rankOf(ops[b])
        /\ \A a, b \in 1..Len(ops) :
             (/\ a < b /\ ops[a].op = "fixer" /\ ops[a].ok
              /\ isFixerOp(ops[b]) /\ ops[b].n > ops[a].n)
               => \E c \in (a + 1)..(b - 1) :
                    ops[c].op = "git diff" /\ ops[c].n = ops[a].n
  /\ \A i, j \in 1..Len(execLog) : i < j => execLog[i].idx < execLog[j].idx
  /\ Len(result.fixerResults) = Len(execLog)
  /\ \A j \in 1..Len(execLog) :
       /\ j <= Len(result.fixerResults)
       /\ execLog[j].idx \in 1..Len(fixers)
       /\ result.fixerResults[j].name =
            reportedName(createFixer(fixers[execLog[j].idx],
                                     getFixerConfig(config, fixers[execLog[j].idx])),
                         fixers[execLog[j].idx])

\* eslint's command and diff, then prettier's probe, command and diff, and
\* the two results in that order
C23_Witness ==
  /\ returned
  /\ Len(result.fixerResults) = 2
  /\ result.fixerResults[1].name = S_eslint
  /\ result.fixerResults[2].name = S_prettier
  /\ \E a, b, c, d, e \in 1..Len(ops) :
       /\ a < b /\ b < c /\ c < d /\ d < e
       /\ ops[a].op = "fixer" /\ ops[a].n = 1
       /\ ops[b].op = "git diff" /\ ops[b].n = 1
       /\ ops[c].op = "probe" /\ ops[c].n = 2
       /\ ops[d].op = "fixer" /\ ops[d].n = 2
       /\ ops[e].op = "git diff" /\ ops[e].n = 2

\* the event is one run() must skip: not a pull request, the skip label, or
\* a head repository other than the base repository
skipEvent == ~ctx.isPullRequest \/ ctx.hasSkipLabel \/ ctx.isFork

\* C24: no availability probe or fixer command is executed unless the event
\* is not a skip event and the loop guard has answered "no risk", and the
\* guard's git log comes before them; on a skip event or a guard that
\* reports risk, run() returns the empty result with no change discovery,
\* no fixer, no commit and no comment.
C24_GuardsComeFirst ==
  /\ \A b \in 1..Len(ops) :
       ops[b].op \in {"probe", "fixer"} =>
         /\ ~skipEvent
         /\ guard.done /\ ~guard.risk
         /\ \E a \in 1..(b - 1) : ops[a].op = "git log author"
  /\ (skipEvent \/ (guard.done /\ guard.risk)) =>
       /\ pc \in {"start", "guard", "done"}
       /\ result = EmptyResult
       /\ discLog = <<>> /\ prFiles = <<>> /\ execLog = <<>>
       /\ \A a \in 1..Len(ops) : ops[a].op \in {"git log author", "git log subject"}
  /\ skipEvent => ops = <<>>

\* a pull request from a fork: run() has returned the empty result having
\* run no command at all
C24_Witness ==
  /\ returned
  /\ result = EmptyResult
  /\ ctx.isPullRequest /\ ~ctx.hasSkipLabel /\ ctx.isFork
  /\ ops = <<>>

\* C25: with skipDraftPrs enabled and a draft pull request the run is
\* skipped: no fixer command is executed and the result has fixesApplied =
\* false and changedFiles = []; otherwise the draft flag causes no skip: a
\* run that returned before the loop guard did so for a skip event.
C25_DraftsSkipped ==
  /\ (inputs.skipDraftPrs /\ ctx.draft) =>
       /\ ~hasOp("fixer")
       /\ ~result.fixesApplied
       /\ result.changedFiles = <<>>
  /\ (~(inputs.skipDraftPrs /\ ctx.draft) /\ returned /\ ~guard.done) => skipEvent

\* the built-in extension list of a built-in fixer
defaultExtensions(fixerName) ==
  IF fixerName = S_eslint THEN EslintExtensions
  ELSE IF fixerName = S_oxlint THEN OxlintExtensions
  ELSE IF fixerName = S_prettier THEN PrettierExtensions
  ELSE MarkdownlintExtensions

\* a file in a subdirectory whose extension is in upper case
F_util == <<"s","r","c","/","l","i","b","/","U","t","i","l",".","J","S">>

\* C26 for one change set and one built-in name: a file is kept exactly
\* when its lowercased extension is in the extension list (the override of
\* the configuration, else the default) and the paths are exactly ['.'] or
\* one of them glob-matches the file; kept files stay in change-set order
routedExactly(files, name) ==
  LET cfg == getFixerConfig(config, name)
      paths == getFixerPaths(inputs, config, name)
      list == IF cfg.hasExtensions THEN cfg.extensions ELSE defaultExtensions(name)
      kept(f) ==
        /\ \E e \in 1..Len(list) : list[e] = toLowerCase(extname(f))
        /\ \/ paths = <<S_dot>>
           \/ \E k \in 1..Len(paths) : minimatch(f, paths[k])
      out == filterFilesByFixer(files, name, cfg, paths)
  IN /\ \A f \in {files[i] : i \in 1..Len(files)} \cup {out[i] : i \in 1..Len(out)} :
          seqContains(out, f) <=> (seqContains(files, f) /\ kept(f))
     /\ Len(out) = Cardinality({i \in 1..Len(files) : kept(files[i])})
     /\ \A a, b \in 1..Len(out) :
          a < b => \E i, j \in 1..Len(files) :
                     i < j /\ files[i] = out[a] /\ files[j] = out[b]

aggregated == returned \/ commitRoute \/ pc = "threw"

\* the results whose files run() pushes to changedFiles (felix.ts 97-99)
contributing ==
  {j \in 1..Len(result.fixerResults) :
     result.fixerResults[j].success /\ Len(result.fixerResults[j].changedFiles) > 0}

\* C27: at return, changedFiles holds no path twice and is the union of
\* changedFiles over the results with success = true and a non-empty
\* changedFiles; fixesApplied is true exactly when there is such a result.
C27_ChangedFilesIsDedupedUnion ==
  LET elements(xs) == {xs[i] : i \in 1..Len(xs)}
  IN aggregated =>
       /\ \A a, b \in 1..Len(result.changedFiles) :
            a # b => result.changedFiles[a] # result.changedFiles[b]
       /\ elements(result.changedFiles) =
            UNION {elements(result.fixerResults[j].changedFiles) : j \in contributing}
       /\ result.fixesApplied <=> contributing # {}

\* two fixers both reported src/app.js, which the result lists once
C27_Witness ==
  /\ returned
  /\ Len(result.fixerResults) = 2
  /\ contributing = {1, 2}
  /\ result.fixerResults[1].changedFiles = <<F_app>>
  /\ result.fixerResults[2].changedFiles = <<F_readme, F_app>>
  /\ result.changedFiles = <<F_app, F_readme>>

\* the command of the j-th result left the set of modified files as it was
modifiedNothing(j) == execLog[j].after = execLog[j].before

\* C28: in a second run of the batch on the tree the first run left, every
\* fixer whose command modifies no file reports changedFiles = [], in
\* dry-run mode as in commit mode.
C28_SecondBatchReportsNothing ==
  runNo > 1 =>
    \A j \in 1..Len(execLog) :
      (executed(j) /\ modifiedNothing(j)) => result.fixerResults[j].changedFiles = <<>>

\* C29 as stated: a fixer whose command finished and modified nothing
\* reports non-empty changedFiles, and success for an exit code other than
\* 126 and 127, whenever the working tree held a modified file.
C29_WholeTreeAlways ==
  \A j \in 1..Len(execLog) :
    (executed(j) /\ modifiedNothing(j) /\ execLog[j].before # {}) =>
      /\ result.fixerResults[j].changedFiles # <<>>
      /\ execLog[j].exitCode \notin {126, 127} => result.fixerResults[j].success

\* C29, amended: when the post-run git diff succeeds, the changedFiles of a
\* fixer whose command finished are the modified files of the whole working
\* tree at that moment, whoever modified them, and with a modified file in
\* the tree every exit code other than 126 and 127 gives success; when the
\* git diff fails, changedFiles is [] and only exit code 0 gives success.
C29_WholeTreeWhenDiffSucceeds ==
  \A j \in 1..Len(execLog) :
    LET e == execLog[j]
        r == result.fixerResults[j]
    IN executed(j) =>
         /\ e.diffOk =>
              /\ {r.changedFiles[i] : i \in 1..Len(r.changedFiles)} = e.after
              /\ (e.after # {} /\ e.exitCode \notin {126, 127}) => r.success
         /\ ~e.diffOk =>
              /\ r.changedFiles = <<>>
              /\ r.success <=> e.exitCode = 0

\* eslint modified both files; prettier then exited 1 having modified
\* nothing, and reported both files and success
C29_Witness ==
  /\ Len(execLog) = 2
  /\ execLog[1].before = {} /\ execLog[1].after = {F_readme, F_app}
  /\ executed(2) /\ modifiedNothing(2)
  /\ execLog[2].exitCode = 1
  /\ result.fixerResults[2].changedFiles = <<F_readme, F_app>>
  /\ result.fixerResults[2].success

\* the positions in ops of the executions of one command
opsNamed(name) == {k \in 1..Len(ops) : ops[k].op = name}

\* C30: commitChanges() pushes at most twice per run: a failed first push
\* is followed by exactly one fetch, one rebase and one second push, in that
\* order, each made only if the one before succeeded; when one of them
\* fails the run throws and nothing more is executed; the commit is created
\* at most once, and only after git diff --cached listed a staged file.
C30_PushAtMostTwice ==
  /\ Cardinality(opsNamed("git push")) <= 2
  /\ Cardinality(opsNamed("git fetch")) <= 1
  /\ Cardinality(opsNamed("git rebase")) <= 1
  /\ Cardinality(opsNamed("git commit")) <= 1
  /\ \A k \in opsNamed("git push") :
       /\ ops[k].n = 1 => \E c \in 1..(k - 1) : ops[c].op = "git commit" /\ ops[c].ok
       /\ (ops[k].n = 1 /\ ops[k].ok) => k = Len(ops)
       /\ (ops[k].n = 1 /\ ~ops[k].ok /\ pc # "commit_retry") =>
            /\ k < Len(ops) /\ ops[k + 1].op = "git fetch"
            /\ ops[k + 1].ok =>
                 /\ k + 1 < Len(ops) /\ ops[k + 2].op = "git rebase"
                 /\ ops[k + 2].ok =>
                      /\ k + 2 < Len(ops)
                      /\ ops[k + 3] = Op("git push", 2, ops[k + 3].ok)
       /\ ops[k].n = 2 =>
            /\ k = Len(ops) /\ k > 3
            /\ ops[k - 3] = Op("git push", 1, FALSE)
            /\ ops[k - 2] = Op("git fetch", 0, TRUE)
            /\ ops[k - 1] = Op("git rebase", 0, TRUE)
            /\ pc = IF ops[k].ok THEN "done" ELSE "threw"
  /\ \A k \in opsNamed("git fetch") \cup opsNamed("git rebase") :
       ~ops[k].ok => k = Len(ops) /\ pc = "threw"
  /\ \A k \in opsNamed("git commit") :
       \E c \in 1..(k - 1) : ops[c].op = "git diff cached" /\ ops[c].ok /\ ops[c].n > 0
  /\ \A c \in opsNamed("git diff cached") :
       (ops[c].ok /\ ops[c].n = 0) => c = Len(ops) /\ pc = "done"

\* the first push failed, fetch and rebase succeeded, the second push
\* failed too and the run threw
C30_Witness ==
  /\ pc = "threw"
  /\ Len(ops) > 3
  /\ ops[Len(ops) - 3] = Op("git push", 1, FALSE)
  /\ ops[Len(ops) - 2] = Op("git fetch", 0, TRUE)
  /\ ops[Len(ops) - 1] = Op("git rebase", 0, TRUE)
  /\ ops[Len(ops)] = Op("git push", 2, FALSE)
  /\ Cardinality(opsNamed("git commit")) = 1

====
